---- MODULE Spec2Model ----
(***************************************************************************)
(* Model of the "Advanced Book Generation" page of infinite-bookshelf      *)
(* (src/main.py): the generate workflow (title, structure, parse, Book,    *)
(* recursive fill, display, export), the page's rerun cycle, the manual    *)
(* edit handler and the exporters.                                         *)
(*                                                                         *)
(* A JSON object / Python dict is an ordered mapping: a sequence of        *)
(* entries with pairwise different keys, in insertion order.  An outline   *)
(* entry is [title, kind, desc, kids]: kind "str" is a leaf description    *)
(* (desc), kind "dict" a nested mapping (kids), kind "other" any other     *)
(* JSON value (number, list, null, ...).  A text is a string; "" is the    *)
(* empty text.                                                             *)
(***************************************************************************)
EXTENDS Integers, Sequences, FiniteSets, TLC

\* ------------------------------------------------------------- bounds ----
\* Largest number of entries (at all levels) of a structure response.
MaxNodes == 3
\* Deepest nesting of mappings in a structure response (1 = flat).
MaxDepth == 2
\* Largest number of clicks on "Generate Book" in one session.
MaxRuns == 2

\* ------------------------------------------------------------- inputs ----
\* Section titles the model may answer with.
SectionTitles == {"A", "B"}
\* Leaf descriptions the model may answer with.
Descs == {"d1", "d2"}
\* Texts a section-generation call may return.
GenTexts == {"g1", "g2"}
\* Titles a title-generation call may return.
BookTitles == {"T1"}
\* Texts the user may type into an edit box.
EditTexts == {"e1", "e2"}

Range(s) == {s[i] : i \in 1..Len(s)}

\* ---------------------------------------------- structure responses ------
StrEntry(t, d) == [title |-> t, kind |-> "str", desc |-> d, kids |-> <<>>]
OtherEntry(t) == [title |-> t, kind |-> "other", desc |-> "", kids |-> <<>>]
DictEntry(t, ks) == [title |-> t, kind |-> "dict", desc |-> "", kids |-> ks]

RECURSIVE PairsOfSize(_, _)
RECURSIVE ValuesOfSize(_, _)
\* The JSON values that take n entries in all, below a key, with d further
\* levels of nesting allowed.
ValuesOfSize(n, d) ==
    IF n = 1
    THEN {StrEntry("", x) : x \in Descs} \cup {OtherEntry("")}
         \cup (IF d > 0 THEN {DictEntry("", <<>>)} ELSE {})
    ELSE IF d > 0 THEN {DictEntry("", ks) : ks \in PairsOfSize(n - 1, d - 1)}
         ELSE {}

\* The key/value pair lists of a JSON object text with exactly n entries in
\* all; a text may repeat a key on one level.
PairsOfSize(n, d) ==
    IF n = 0 THEN {<<>>}
    ELSE UNION {
           { <<[v EXCEPT !.title = t]>> \o rest :
                 t \in SectionTitles, v \in ValuesOfSize(k, d),
                 rest \in PairsOfSize(n - k, d) }
           : k \in 1..n }

\* A structure response: text that is no JSON at all, or a JSON object text.
Malformed == [ok |-> FALSE, pairs |-> <<>>]
Responses ==
    {Malformed} \cup
    UNION { {[ok |-> TRUE, pairs |-> p] : p \in PairsOfSize(n, MaxDepth - 1)}
            : n \in 0..MaxNodes }

\* ------------------------------------------------------- json.loads ------
\* Python's dict assignment d[key] = value on an ordered mapping of outline
\* entries: an existing key keeps its position and takes the new value, a new
\* key goes last.
RECURSIVE DictSet(_, _)
DictSet(d, e) ==
    IF d = <<>> THEN <<e>>
    ELSE IF Head(d).title = e.title THEN <<e>> \o Tail(d)
    ELSE <<Head(d)>> \o DictSet(Tail(d), e)

\* json.loads on a JSON object text: the pairs are inserted left to right into
\* a dict, nested objects parsed the same way.
RECURSIVE ParsePairs(_, _)
ParsePairs(pairs, acc) ==
    IF pairs = <<>> THEN acc
    ELSE LET e == Head(pairs)
             v == IF e.kind = "dict"
                  THEN [e EXCEPT !.kids = ParsePairs(e.kids, <<>>)]
                  ELSE e
         IN ParsePairs(Tail(pairs), DictSet(acc, v))

json_loads(text) == ParsePairs(text.pairs, <<>>)

\* ------------------------------------------------------------- Book ------
\* The Book state object: a title and an ordered mapping from section title to
\* content, each entry [title, content].
NoBook == [exists |-> FALSE, book_title |-> "", contents |-> <<>>]

\* Every title of the outline, depth-first in insertion order.
RECURSIVE flatten_structure(_)
flatten_structure(structure) ==
    IF structure = <<>> THEN <<>>
    ELSE LET e == Head(structure)
         IN <<e.title>>
            \o (IF e.kind = "dict" THEN flatten_structure(e.kids) ELSE <<>>)
            \o flatten_structure(Tail(structure))

\* contents[title] = content on the ordered mapping.
RECURSIVE ContentSet(_, _, _)
ContentSet(contents, title, content) ==
    IF contents = <<>> THEN <<[title |-> title, content |-> content]>>
    ELSE IF Head(contents).title = title
         THEN <<[title |-> title, content |-> content]>> \o Tail(contents)
         ELSE <<Head(contents)>> \o ContentSet(Tail(contents), title, content)

\* An empty content entry for each title of the sequence, a repeated title
\* keeping its first position.
RECURSIVE EmptyContents(_, _)
EmptyContents(titles, acc) ==
    IF titles = <<>> THEN acc
    ELSE EmptyContents(Tail(titles), ContentSet(acc, Head(titles), ""))

\* Book(book_title, structure): constructed from the title and the parsed
\* structure, no section populated yet.
BookNew(title, structure) ==
    [exists |-> TRUE, book_title |-> title,
     contents |-> EmptyContents(flatten_structure(structure), <<>>)]

\* book.update_content(title, new_content): replace the content kept for title.
update_content(b, title, new_content) ==
    [b EXCEPT !.contents = ContentSet(b.contents, title, new_content)]

\* book.get_markdown_content(): the title as heading, then each section title
\* as sub-heading followed by its content.
RECURSIVE MarkdownSections(_)
MarkdownSections(contents) ==
    IF contents = <<>> THEN <<>>
    ELSE <<[kind |-> "h2", text |-> Head(contents).title],
           [kind |-> "body", text |-> Head(contents).content]>>
         \o MarkdownSections(Tail(contents))

get_markdown_content(b) ==
    <<[kind |-> "h1", text |-> b.book_title]>> \o MarkdownSections(b.contents)

\* -------------------------------------------------------- exporters ------
\* create_markdown_file / create_pdf_file: the flattened Markdown laid out in
\* the same order.
create_markdown_file(md) == md
create_pdf_file(md) == md

\* A chapter loop that leaves out the sections that have no content.
RECURSIVE EpubChaptersNonEmpty(_)
EpubChaptersNonEmpty(contents) ==
    IF contents = <<>> THEN <<>>
    ELSE (IF Head(contents).content = "" THEN <<>>
          ELSE <<[kind |-> "chapter", title |-> Head(contents).title,
                  file_name |-> <<Head(contents).title, ".xhtml">>,
                  h1 |-> Head(contents).title, p |-> Head(contents).content]>>)
         \o EpubChaptersNonEmpty(Tail(contents))

\* The chapter loop of create_epub_file: one EpubHtml per contents item, added
\* to the package and to the chapters list.
RECURSIVE EpubChapters(_)
EpubChapters(contents) ==
    IF contents = <<>> THEN <<>>
    ELSE <<[kind |-> "chapter", title |-> Head(contents).title,
            file_name |-> <<Head(contents).title, ".xhtml">>,
            h1 |-> Head(contents).title, p |-> Head(contents).content]>>
         \o EpubChapters(Tail(contents))

EpubAux(kind, stem, ext) ==
    [kind |-> kind, title |-> "", file_name |-> <<stem, ext>>,
     h1 |-> "", p |-> ""]

create_epub_file(b) ==
    LET chapters == EpubChapters(b.contents)
    IN [title |-> b.book_title,
        toc |-> chapters,
        items |-> chapters
                  \o <<EpubAux("ncx", "toc", ".ncx"),
                       EpubAux("nav", "nav", ".xhtml"),
                       EpubAux("style", "style/nav", ".css")>>]

\* The section loop of create_docx_file: a level-2 heading and a paragraph per
\* contents item.
RECURSIVE DocxSections(_)
DocxSections(contents) ==
    IF contents = <<>> THEN <<>>
    ELSE <<[kind |-> "heading", level |-> 2, text |-> Head(contents).title],
           [kind |-> "paragraph", level |-> 0, text |-> Head(contents).content]>>
         \o DocxSections(Tail(contents))

create_docx_file(b) ==
    <<[kind |-> "heading", level |-> 1, text |-> b.book_title]>>
    \o DocxSections(b.contents)

NoEpub == [title |-> "", toc |-> <<>>, items |-> <<>>]
NoDownloads ==
    [offered |-> FALSE, pdf |-> <<>>, epub |-> NoEpub, docx |-> <<>>, md |-> <<>>]

\* ------------------------------------------------------------ state ------
VARIABLES
    pc,           \* where the script is: "rerun" (top of the script), "title",
                  \* "structure", "parse", "fill", "display"; or waiting for
                  \* the user: "idle" (form only), "done" (book, downloads and
                  \* edit controls rendered), "aborted" (error banner)
    clicked,      \* the widget whose click started the current/last script run
    runs,         \* clicks on "Generate Book" so far
    book_title,   \* local book_title ("" before line 102 has run)
    response,     \* local book_structure, the structure response text
    parsed,       \* [done, json]: local book_structure_json once it is parsed
    book,         \* local book, NoBook before line 118 has run
    stack,        \* the active calls of generate_book_content, outermost
                  \* first: [sections, i], i the entry the for loop is at
    calls,        \* the generate_section calls of this run, in order:
                  \* [title, desc, ok, text]
    events,       \* the steps of this run, in order
    downloads,    \* the data handed to the four download buttons
    edit_mode,    \* the value of the "Enable Editing" checkbox
    saveButtons,  \* titles whose "Save Changes" button is rendered
    lastSave      \* the last save the edit handler did: [title, text]

vars == <<pc, clicked, runs, book_title, response, parsed, book, stack, calls,
          events, downloads, edit_mode, saveButtons, lastSave>>

NoParse == [done |-> FALSE, json |-> <<>>]
NoSave == [title |-> "", text |-> ""]
Waiting == {"idle", "done", "aborted"}

\* A fresh script run: every local of advanced_book_generation is unset and the
\* page holds nothing of the run before.
FreshLocals ==
    /\ book_title' = ""
    /\ response' = Malformed
    /\ parsed' = NoParse
    /\ book' = NoBook
    /\ stack' = <<>>
    /\ calls' = <<>>
    /\ events' = <<>>
    /\ downloads' = NoDownloads
    /\ saveButtons' = {}

Init ==
    /\ pc = "idle"
    /\ clicked = "none"
    /\ runs = 0
    /\ book_title = ""
    /\ response = Malformed
    /\ parsed = NoParse
    /\ book = NoBook
    /\ stack = <<>>
    /\ calls = <<>>
    /\ events = <<>>
    /\ downloads = NoDownloads
    /\ edit_mode = FALSE
    /\ saveButtons = {}
    /\ lastSave = NoSave

\* An exception leaves the script: the run ends with the error banner.
Raise ==
    /\ pc' = "aborted"
    /\ stack' = <<>>
    /\ events' = Append(events, "error")

\* ----------------------------------------------------- user actions ------
\* The user presses "Generate Book"; the page reruns the script.
ClickGenerate ==
    /\ pc \in Waiting
    /\ runs < MaxRuns
    /\ pc' = "rerun"
    /\ clicked' = "generate"
    /\ runs' = runs + 1
    /\ UNCHANGED <<book_title, response, parsed, book, stack, calls, events,
                   downloads, edit_mode, saveButtons, lastSave>>

\* The user ticks "Enable Editing", rendered by a run that reached line 178;
\* the page reruns the script with the checkbox value.
ToggleEditing ==
    /\ pc = "done"
    /\ pc' = "rerun"
    /\ clicked' = "edit"
    /\ edit_mode' = ~edit_mode
    /\ UNCHANGED <<runs, book_title, response, parsed, book, stack, calls,
                   events, downloads, saveButtons, lastSave>>

\* The user presses one of the four download buttons; the browser saves the
\* data the button holds and the page reruns the script.
ClickDownload ==
    /\ pc = "done"
    /\ downloads.offered
    /\ pc' = "rerun"
    /\ clicked' = "download"
    /\ UNCHANGED <<runs, book_title, response, parsed, book, stack, calls,
                   events, downloads, edit_mode, saveButtons, lastSave>>

\* ------------------------------------------------------- the script ------
\* Lines 81-99: the script starts over with fresh locals; st.button("Generate
\* Book") is true only in the run its click started.  In any other run the
\* body of the if is skipped, so neither the book nor the widgets below it are
\* rendered, and the value of the checkbox that is not rendered is dropped.
Rerun ==
    /\ pc = "rerun"
    /\ FreshLocals
    /\ IF clicked = "generate"
       THEN pc' = "title" /\ edit_mode' = edit_mode
       ELSE pc' = "idle" /\ edit_mode' = FALSE
    /\ UNCHANGED <<clicked, runs, lastSave>>

\* Lines 102-106: generate_book_title returns a title or raises.
GenerateTitle ==
    /\ pc = "title"
    /\ \/ /\ \E t \in BookTitles : book_title' = t
          /\ pc' = "structure"
          /\ events' = Append(events, "title")
          /\ UNCHANGED stack
       \/ /\ Raise
          /\ UNCHANGED book_title
    /\ UNCHANGED <<clicked, runs, response, parsed, book, calls, downloads,
                   edit_mode, saveButtons, lastSave>>

\* Lines 109-114: generate_book_structure returns the response text or raises.
GenerateStructure ==
    /\ pc = "structure"
    /\ \/ /\ \E r \in Responses : response' = r
          /\ pc' = "parse"
          /\ events' = Append(events, "structure")
          /\ UNCHANGED stack
       \/ /\ Raise
          /\ UNCHANGED response
    /\ UNCHANGED <<clicked, runs, book_title, parsed, book, calls, downloads,
                   edit_mode, saveButtons, lastSave>>

\* A parse step that takes text that is no JSON for an empty outline.
ParseAndCreateBookLenient ==
    /\ pc = "parse"
    /\ parsed' = [done |-> TRUE,
                  json |-> IF response.ok THEN json_loads(response) ELSE <<>>]
    /\ book' = BookNew(book_title, parsed'.json)
    /\ stack' = <<[sections |-> parsed'.json, i |-> 1]>>
    /\ events' = events \o <<"parse", "book">>
    /\ pc' = "fill"
    /\ UNCHANGED <<clicked, runs, book_title, response, calls, downloads,
                   edit_mode, saveButtons, lastSave>>

\* Lines 117-118 and 134: json.loads raises on text that is no JSON; else the
\* Book is built and generate_book_content is called on the parsed structure.
ParseAndCreateBook ==
    /\ pc = "parse"
    /\ IF response.ok
       THEN /\ parsed' = [done |-> TRUE, json |-> json_loads(response)]
            /\ book' = BookNew(book_title, parsed'.json)
            /\ stack' = <<[sections |-> parsed'.json, i |-> 1]>>
            /\ events' = events \o <<"parse", "book">>
            /\ pc' = "fill"
       ELSE /\ Raise
            /\ UNCHANGED <<parsed, book>>
    /\ UNCHANGED <<clicked, runs, book_title, response, calls, downloads,
                   edit_mode, saveButtons, lastSave>>

\* ------------------------------------------- generate_book_content ------
Top == stack[Len(stack)]
AtEntry == pc = "fill" /\ stack # <<>> /\ Top.i <= Len(Top.sections)
Entry == Top.sections[Top.i]
Advance(st) == [st EXCEPT ![Len(st)].i = @ + 1]

\* A section step that catches the exception of generate_section and goes on
\* with the next entry.
FillSectionContinue ==
    /\ AtEntry
    /\ Entry.kind = "str"
    /\ \/ \E g \in GenTexts :
               /\ book' = update_content(book, Entry.title, g)
               /\ calls' = Append(calls, [title |-> Entry.title,
                                          desc |-> Entry.desc,
                                          ok |-> TRUE, text |-> g])
       \/ /\ calls' = Append(calls, [title |-> Entry.title,
                                     desc |-> Entry.desc,
                                     ok |-> FALSE, text |-> ""])
          /\ UNCHANGED book
    /\ stack' = Advance(stack)
    /\ events' = Append(events, "section")
    /\ pc' = "fill"
    /\ UNCHANGED <<clicked, runs, book_title, response, parsed, downloads,
                   edit_mode, saveButtons, lastSave>>

\* Lines 123-130: the entry is a plain string.  generate_section is called
\* with the entry's title and description; its result is stored under the
\* title, or its exception leaves the script.
FillSection ==
    /\ AtEntry
    /\ Entry.kind = "str"
    /\ \/ /\ \E g \in GenTexts :
               /\ book' = update_content(book, Entry.title, g)
               /\ calls' = Append(calls, [title |-> Entry.title,
                                          desc |-> Entry.desc,
                                          ok |-> TRUE, text |-> g])
          /\ stack' = Advance(stack)
          /\ events' = Append(events, "section")
          /\ pc' = "fill"
       \/ /\ calls' = Append(calls, [title |-> Entry.title,
                                     desc |-> Entry.desc,
                                     ok |-> FALSE, text |-> ""])
          /\ Raise
          /\ UNCHANGED book
    /\ UNCHANGED <<clicked, runs, book_title, response, parsed, downloads,
                   edit_mode, saveButtons, lastSave>>

\* A mapping step that does not recurse: the loop goes on with the next entry.
FillRecurseSkipped ==
    /\ AtEntry
    /\ Entry.kind = "dict"
    /\ stack' = Advance(stack)
    /\ UNCHANGED <<pc, clicked, runs, book_title, response, parsed, book,
                   calls, events, downloads, edit_mode, saveButtons, lastSave>>

\* Lines 131-132: the entry is a mapping; generate_book_content is called on
\* it, and the for loop of the caller waits at this entry.
FillRecurse ==
    /\ AtEntry
    /\ Entry.kind = "dict"
    /\ stack' = Append(stack, [sections |-> Entry.kids, i |-> 1])
    /\ UNCHANGED <<pc, clicked, runs, book_title, response, parsed, book,
                   calls, events, downloads, edit_mode, saveButtons, lastSave>>

\* Lines 122-131: the entry is neither a string nor a mapping; the loop goes on.
FillSkip ==
    /\ AtEntry
    /\ Entry.kind = "other"
    /\ stack' = Advance(stack)
    /\ UNCHANGED <<pc, clicked, runs, book_title, response, parsed, book,
                   calls, events, downloads, edit_mode, saveButtons, lastSave>>

\* A return that leaves every active call at once: the display starts when the
\* first for loop ends.
FillReturnAll ==
    /\ pc = "fill"
    /\ stack # <<>>
    /\ Top.i > Len(Top.sections)
    /\ stack' = <<>>
    /\ pc' = "display"
    /\ UNCHANGED <<clicked, runs, book_title, response, parsed, book, calls,
                   events, downloads, edit_mode, saveButtons, lastSave>>

\* Line 122: the for loop is over and the call returns, to the loop of its
\* caller (line 132) or, for the outermost call (line 134), to the display.
FillReturn ==
    /\ pc = "fill"
    /\ stack # <<>>
    /\ Top.i > Len(Top.sections)
    /\ IF Len(stack) = 1
       THEN stack' = <<>> /\ pc' = "display"
       ELSE stack' = Advance(SubSeq(stack, 1, Len(stack) - 1)) /\ pc' = "fill"
    /\ UNCHANGED <<clicked, runs, book_title, response, parsed, book, calls,
                   events, downloads, edit_mode, saveButtons, lastSave>>

\* ------------------------------------------------ display and export -----
\* The titles of the contents mapping, in order: book.contents.keys().
RECURSIVE Keys(_)
Keys(contents) ==
    IF contents = <<>> THEN <<>>
    ELSE <<Head(contents).title>> \o Keys(Tail(contents))

\* Lines 137-190: the book is displayed, each download button is given the
\* output of its exporter, and the edit controls are rendered: the checkbox,
\* and under edit_mode a text area and a save button per section.
DisplayAndExport ==
    /\ pc = "display"
    /\ downloads' = [offered |-> TRUE,
                     pdf |-> create_pdf_file(get_markdown_content(book)),
                     epub |-> create_epub_file(book),
                     docx |-> create_docx_file(book),
                     md |-> create_markdown_file(get_markdown_content(book))]
    /\ saveButtons' = IF edit_mode THEN Range(Keys(book.contents)) ELSE {}
    /\ events' = events \o <<"display", "export">>
    /\ pc' = "done"
    /\ UNCHANGED <<clicked, runs, book_title, response, parsed, book, stack,
                   calls, edit_mode, lastSave>>

\* A save handler that writes to the first section whichever button was pressed.
SaveChangesFirstKey(title, edited_content) ==
    /\ title \in saveButtons
    /\ book' = update_content(book, Head(Keys(book.contents)), edited_content)
    /\ lastSave' = [title |-> title, text |-> edited_content]
    /\ UNCHANGED <<pc, clicked, runs, book_title, response, parsed, stack,
                   calls, events, downloads, edit_mode, saveButtons>>

\* Lines 188-190: the save button of section title was pressed while its text
\* area held edited_content.
SaveChanges(title, edited_content) ==
    /\ title \in saveButtons
    /\ book' = update_content(book, title, edited_content)
    /\ lastSave' = [title |-> title, text |-> edited_content]
    /\ UNCHANGED <<pc, clicked, runs, book_title, response, parsed, stack,
                   calls, events, downloads, edit_mode, saveButtons>>

\* ---------------------------------------------------- specifications -----
FillStep == FillSection \/ FillRecurse \/ FillSkip \/ FillReturn

Next ==
    \/ ClickGenerate
    \/ ToggleEditing
    \/ ClickDownload
    \/ Rerun
    \/ GenerateTitle
    \/ GenerateStructure
    \/ ParseAndCreateBook
    \/ FillSection
    \/ FillRecurse
    \/ FillSkip
    \/ FillReturn
    \/ DisplayAndExport

Spec == Init /\ [][Next]_vars

\* The edit handler on its own: the state lines 180-190 run in when a run
\* reaches them with edit_mode set, after a fill in which no call failed.
RECURSIVE Leaves(_)
\* The entries of the outline whose value is a plain string, depth-first in
\* insertion order, each as [title, desc].
Leaves(sections) ==
    IF sections = <<>> THEN <<>>
    ELSE LET e == Head(sections)
         IN (IF e.kind = "str" THEN <<[title |-> e.title, desc |-> e.desc]>>
             ELSE IF e.kind = "dict" THEN Leaves(e.kids) ELSE <<>>)
            \o Leaves(Tail(sections))

\* The calls of a fill of these leaves in which the call for a leaf of title t
\* returned f[t].
CallsOf(leaves, f) ==
    [i \in 1..Len(leaves) |->
        [title |-> leaves[i].title, desc |-> leaves[i].desc, ok |-> TRUE,
         text |-> f[leaves[i].title]]]

\* The book after these calls, each result stored under its title.
RECURSIVE FillAll(_, _)
FillAll(b, cs) ==
    IF cs = <<>> THEN b
    ELSE FillAll(update_content(b, Head(cs).title, Head(cs).text), Tail(cs))

\* The steps of a run that reached the export after n section calls.
RunEvents(n) ==
    <<"title", "structure", "parse", "book">>
    \o [i \in 1..n |-> "section"] \o <<"display", "export">>

InitEdit ==
    /\ pc = "done"
    /\ clicked = "generate"
    /\ runs = 1
    /\ book_title \in BookTitles
    /\ response \in {r \in Responses : r.ok}
    /\ parsed = [done |-> TRUE, json |-> json_loads(response)]
    /\ \E f \in [SectionTitles -> GenTexts] :
           calls = CallsOf(Leaves(parsed.json), f)
    /\ book = FillAll(BookNew(book_title, parsed.json), calls)
    /\ stack = <<>>
    /\ events = RunEvents(Len(calls))
    /\ downloads = [offered |-> TRUE,
                    pdf |-> create_pdf_file(get_markdown_content(book)),
                    epub |-> create_epub_file(book),
                    docx |-> create_docx_file(book),
                    md |-> create_markdown_file(get_markdown_content(book))]
    /\ edit_mode = TRUE
    /\ saveButtons = Range(Keys(book.contents))
    /\ lastSave = NoSave

\* One button is pressed per script run.
NextEdit ==
    \E title \in SectionTitles, edited_content \in EditTexts :
        lastSave = NoSave /\ SaveChanges(title, edited_content)

SpecEdit == InitEdit /\ [][NextEdit]_vars

\* ===================================================== properties ======
Lookup(contents, title) ==
    IF \E i \in 1..Len(contents) : contents[i].title = title
    THEN contents[CHOOSE i \in 1..Len(contents) : contents[i].title = title]
             .content
    ELSE ""

Populated(contents) == {i \in 1..Len(contents) : contents[i].content # ""}

\* A valid outline: every value is a description or, recursively, an outline.
RECURSIVE ValidOutline(_)
ValidOutline(sections) ==
    \A i \in 1..Len(sections) :
        \/ sections[i].kind = "str"
        \/ sections[i].kind = "dict" /\ ValidOutline(sections[i].kids)

IsPrefix(s, t) == Len(s) <= Len(t) /\ SubSeq(t, 1, Len(s)) = s
Last(s) == s[Len(s)]
Prompts(cs) == [i \in 1..Len(cs) |-> [title |-> cs[i].title, desc |-> cs[i].desc]]

\* C1: after a run on a valid outline in which no call failed, the contents
\* mapping has exactly one populated entry per leaf of the outline, each of
\* them non-empty.
C1_OnePopulatedEntryPerLeaf ==
    (pc = "done" /\ ValidOutline(parsed.json)) =>
        /\ Cardinality(Populated(book.contents)) = Len(Leaves(parsed.json))
        /\ \A i \in 1..Len(calls) :
               Lookup(book.contents, calls[i].title) \in GenTexts

\* C2: once the structure response has failed to parse, the run has no Book,
\* has made no section call and offers no download; the script has stopped at
\* the parse step.
C2_ParseFailureStopsRun ==
    (Len(events) >= 2 /\ events[2] = "structure" /\ ~response.ok) =>
        /\ ~book.exists
        /\ ~parsed.done
        /\ calls = <<>>
        /\ ~downloads.offered
        /\ pc \in {"parse", "aborted", "rerun"}
        /\ pc # "parse" => events = <<"title", "structure", "error">>

C2_Witness ==
    /\ pc = "aborted"
    /\ ~response.ok
    /\ events = <<"title", "structure", "error">>

\* C3: a failed generation call is the last step of its run: nothing is
\* called after it, the script has stopped, and neither display nor export
\* has been reached.
C3_FailureAbortsRun ==
    /\ \A i \in 1..Len(events) :
           events[i] = "error" =>
               /\ i = Len(events)
               /\ pc \in {"aborted", "rerun"}
               /\ ~downloads.offered
               /\ stack = <<>>
    /\ \A j \in 1..Len(calls) :
           ~calls[j].ok => j = Len(calls) /\ Last(events) = "error"
    /\ pc = "aborted" => events # <<>> /\ Last(events) = "error"

C3_Witness ==
    /\ pc = "aborted"
    /\ calls # <<>>
    /\ ~Last(calls).ok
    /\ Len(Leaves(parsed.json)) > Len(calls)

Chapters(items) == SelectSeq(items, LAMBDA it : it.kind = "chapter")

\* C5: the e-book package offered for download holds exactly one chapter
\* document per title of the contents mapping, in the mapping's order, and its
\* toc lists every one of these chapters.
C5_OneChapterPerSection ==
    downloads.offered =>
        LET ch == Chapters(downloads.epub.items)
        IN /\ Len(ch) = Len(book.contents)
           /\ \A i \in 1..Len(ch) :
                  /\ ch[i].title = book.contents[i].title
                  /\ ch[i].h1 = book.contents[i].title
                  /\ ch[i].p = book.contents[i].content
           /\ \A i, j \in 1..Len(ch) : ch[i].title = ch[j].title => i = j
           /\ downloads.epub.toc = ch
           /\ downloads.epub.title = book.book_title

C5_Witness ==
    /\ downloads.offered
    /\ Len(book.contents) >= 2
    /\ Len(Chapters(downloads.epub.items)) >= 2
    /\ \E i \in 1..Len(book.contents) : book.contents[i].content = ""

\* C6: the steps of a run are taken in the order title, structure, parse,
\* Book, section calls, display, export; and when the downloads are offered
\* the fill has returned with a call made for every leaf of the outline.
C6_StepsInOrder ==
    /\ LET body == IF events # <<>> /\ Last(events) = "error"
                   THEN SubSeq(events, 1, Len(events) - 1) ELSE events
       IN IsPrefix(body, RunEvents(Len(calls)))
          \/ (calls # <<>> /\ ~Last(calls).ok
              /\ IsPrefix(body, RunEvents(Len(calls) - 1)))
    /\ (downloads.offered \/ pc = "display") =>
          /\ stack = <<>>
          /\ book.exists
          /\ Prompts(calls) = Leaves(parsed.json)
          /\ \A i \in 1..Len(calls) : calls[i].ok
    /\ downloads.offered => events = RunEvents(Len(Leaves(parsed.json)))
    /\ ~downloads.offered =>
          \A i \in 1..Len(events) : events[i] \notin {"display", "export"}

C6_Witness ==
    /\ pc = "done"
    /\ downloads.offered
    /\ Len(calls) >= 2
    /\ \E i \in 1..Len(parsed.json) : parsed.json[i].kind = "dict"

\* The steps generate_book_content has left on an outline: one per entry, the
\* steps of the nested call for a mapping, and the return.
RECURSIVE Work(_)
Work(sections) ==
    IF sections = <<>> THEN 1
    ELSE 1 + (IF Head(sections).kind = "dict" THEN Work(Head(sections).kids)
              ELSE 0)
         + Work(Tail(sections))

RECURSIVE WorkLeft(_)
\* The steps the active calls have left: the innermost from its entry on, each
\* caller from the entry after the one it waits at.
WorkLeft(st) ==
    IF st = <<>> THEN 0
    ELSE LET f == Last(st)
             rest == SubSeq(st, 1, Len(st) - 1)
         IN Work(SubSeq(f.sections, f.i, Len(f.sections)))
            + (IF rest = <<>> THEN 0
               ELSE WorkLeft(Advance(rest)))

\* C8: the section calls made so far are the first string leaves of the
\* outline in depth-first insertion order, one call per leaf, and all of them
\* once the fill has returned; each call's result is stored under its leaf's
\* title in the step that makes the call; and the fill terminates: it can
\* always take a step, and each of its steps leaves fewer steps to take.
C8_DepthFirstFill ==
    /\ [](parsed.done =>
             /\ IsPrefix(Prompts(calls), Leaves(parsed.json))
             /\ pc \in {"display", "done"} =>
                    Prompts(calls) = Leaves(parsed.json)
             /\ pc = "fill" => stack # <<>> /\ ENABLED FillStep)
    /\ [][/\ calls' # calls /\ calls' # <<>> /\ Last(calls').ok =>
                /\ calls' = Append(calls, Last(calls'))
                /\ Lookup(book'.contents, Last(calls').title)
                       = Last(calls').text
          /\ pc = "fill" /\ pc' = "fill" => WorkLeft(stack') < WorkLeft(stack)
          /\ pc = "fill" /\ pc' = "display" => WorkLeft(stack) = 1]_vars

C8_Witness ==
    /\ pc = "done"
    /\ Len(calls) >= 2
    /\ \E i, j \in 1..Len(parsed.json) :
           /\ i < j
           /\ parsed.json[i].kind = "dict"
           /\ parsed.json[i].kids # <<>>
           /\ parsed.json[i].kids[1].kind = "str"
           /\ parsed.json[j].kind = "str"

\* C9: when the call for the k-th leaf fails, the Book holds for each of the
\* leaves 1..k-1 the text generated for it, and for each leaf from k on what
\* it held when the Book was built.
C9_NoRollbackPerLeaf ==
    (pc = "aborted" /\ calls # <<>> /\ ~Last(calls).ok) =>
        LET k == Len(calls)
            leaves == Leaves(parsed.json)
            before == BookNew(book_title, parsed.json).contents
        IN /\ \A i \in 1..(k - 1) :
                  Lookup(book.contents, leaves[i].title) = calls[i].text
           /\ \A j \in k..Len(leaves) :
                  Lookup(book.contents, leaves[j].title)
                      = Lookup(before, leaves[j].title)

\* C10: after the user has ticked "Enable Editing" on the page of a generated
\* book and the rerun this triggers is over, the Book is still there and every
\* section has its save button, so that a save can reach the Book.
C10_EditKeepsBook ==
    (clicked = "edit" /\ pc \in Waiting) =>
        /\ book.exists
        /\ saveButtons = Range(Keys(book.contents))

====
